---- MODULE Spec2Model ----
(***************************************************************************)
(* Model of the position risk-management state machine of the trading bot. *)
(*                                                                         *)
(* Two implementations of PositionManager live in the repository:          *)
(*   impl = "pm"   src/position_manager.py   (used by the live loops and   *)
(*                                            the backtest simulation)     *)
(*   impl = "pm1"  src/position_manager_1.py (profit skimming, backtest    *)
(*                                            fund deduction)              *)
(*                                                                         *)
(* Arithmetic is exact fixed point:                                        *)
(*   prices and quantities are integers;                                   *)
(*   money (balance, pnl, profit_account) is counted in 1/MoneyScale;      *)
(*   trailing_stop is counted in 1/StopScale of a price unit;              *)
(*   atr is stored as the SUM of the true ranges, i.e. in 1/AtrPeriod.     *)
(* Optional values (Python None) are sequences: <<>> is None, <<v>> is v.  *)
(***************************************************************************)
EXTENDS Integers, Sequences, FiniteSets, TLC

\* ---------------------------------------------------------------- bounds
MaxSteps == 4            \* number of PositionManager calls in one run
AtrPeriod == 1           \* constructor argument atr_period of the run

\* ------------------------------------------------------ program constants
InitialBalance == 1000   \* --initial_usdt default
MoneyScale == 1000       \* fee_rate = 0.001 = 1 / MoneyScale
TrailingStopPct == 2     \* trailing_stop_pct = 0.02  (per cent)
StopLossMultTwice == 3   \* stop_loss_mult = 1.5      (in halves)
WatchPctPm == 145        \* entry_price * 1.45        (per cent)
WatchPctPm1 == 105       \* entry_price * 1.05        (per cent)
TargetPct == 110         \* initial_balance * 1.10    (per cent)
RedTolerancePct == 1     \* open_price * 0.01         (per cent)
FixedStopPct == 2        \* fixed_stop_pct "(e.g., 2%)": stored by __init__,
                         \* read by no method            (per cent)

StopScale == 100 * 2 * AtrPeriod

\* ----------------------------------------------------------- input sets
Prices == {90, 100, 110, 150}
MinPrice == CHOOSE p \in Prices : \A q \in Prices : p <= q
MaxPrice == CHOOSE p \in Prices : \A q \in Prices : p >= q
OpenPrices == {101, 150}
Quantities == {10}
Symbols == {"LTCUSDT"}
Reasons == {"Signal BUY"}

None == <<>>
Some(v) == <<v>>
Val(o) == o[1]

Abs(x) == IF x < 0 THEN -x ELSE x
Max2(a, b) == IF a >= b THEN a ELSE b
Max3(a, b, c) == Max2(a, Max2(b, c))

VARIABLES
    impl,               \* which module's PositionManager is instantiated
    mode,               \* self.mode
    balance,            \* self.balance
    profit_account,     \* self.profit_account        (pm1 only, else 0)
    profit_taken_count, \* self.profit_taken_count    (pm1 only, else 0)
    current_position,   \* self.current_position
    position_log,       \* self.position_log
    highest_price,      \* self.highest_price
    trailing_stop,      \* self.trailing_stop
    price_history,      \* self.price_history  (deque, maxlen atr_period+1)
    atr,                \* self.atr
    watch_mode,         \* self.watch_mode
    watch_mode_entered, \* self.watch_mode_entered
    clock,              \* number of calls made so far
    lastOp,             \* history: the method called by the last step
    monitored,          \* history: prices monitored since the open
                        \* position was entered (<<>> when flat)
    balance_before,     \* history: self.balance before the last call
    current_action,     \* StrategyManager.current_action
    decided,            \* history: what the last process_signals returned
    sigCall,            \* history: the last signal-pipeline call, with its
                        \* argument and its result
    loop,               \* which orchestration script runs ("none": the
                        \* objects are driven call by call)
    pc,                 \* the script's position inside its cycle
    cycle,              \* number of cycles (candles) started
    live_price,         \* the cycle's live_price / current_price
    calls,              \* history: gateway and PositionManager calls made
                        \* by the current cycle, in order
    cooldown_until,     \* backtest: cooldown_until
    mock_mode,          \* TradeExecutor.mock_mode
    kline_filter,       \* exchange: what endTime of /klines is compared with
    start_time,         \* fetch_historical_data: start_time
    end_time,           \* fetch_historical_data: end_time
    all_data,           \* fetch_historical_data: all_data (list of pages)
    combined_data       \* fetch_historical_data: the returned frame

pmvars == <<balance, profit_account, profit_taken_count, current_position,
            position_log, highest_price, trailing_stop, price_history, atr,
            watch_mode, watch_mode_entered>>
vars == <<impl, mode, balance, profit_account, profit_taken_count,
          current_position, position_log, highest_price, trailing_stop,
          price_history, atr, watch_mode, watch_mode_entered, clock, lastOp,
          monitored, balance_before, current_action, decided, sigCall, loop,
          pc, cycle, live_price, calls, cooldown_until, mock_mode,
          kline_filter, start_time, end_time, all_data, combined_data>>
histvars == <<clock, lastOp, monitored, balance_before>>
sigvars == <<current_action, decided, sigCall>>
loopvars == <<loop, pc, cycle, live_price, calls, cooldown_until, mock_mode>>
fetchvars == <<kline_filter, start_time, end_time, all_data, combined_data>>

\* The object as a record, so that methods can call one another.
Self ==
    [balance |-> balance, profit_account |-> profit_account,
     profit_taken_count |-> profit_taken_count,
     current_position |-> current_position, position_log |-> position_log,
     highest_price |-> highest_price, trailing_stop |-> trailing_stop,
     price_history |-> price_history, atr |-> atr,
     watch_mode |-> watch_mode, watch_mode_entered |-> watch_mode_entered]

Store(s) ==
    /\ balance' = s.balance
    /\ profit_account' = s.profit_account
    /\ profit_taken_count' = s.profit_taken_count
    /\ current_position' = s.current_position
    /\ position_log' = s.position_log
    /\ highest_price' = s.highest_price
    /\ trailing_stop' = s.trailing_stop
    /\ price_history' = s.price_history
    /\ atr' = s.atr
    /\ watch_mode' = s.watch_mode
    /\ watch_mode_entered' = s.watch_mode_entered

\* ------------------------------------------------------------- __init__
\* Mutant: the constructor primes the trailing stop.
PmInitStopPrimed(initial_balance) ==
    /\ balance = initial_balance * MoneyScale
    /\ profit_account = 0
    /\ profit_taken_count = 0
    /\ current_position = None
    /\ position_log = <<>>
    /\ highest_price = None
    /\ trailing_stop = Some(0)
    /\ price_history = <<>>
    /\ atr = None
    /\ watch_mode = FALSE
    /\ watch_mode_entered = None
    /\ clock = 0
    /\ lastOp = [name |-> "__init__", raised |-> FALSE]
    /\ monitored = <<>>
    /\ balance_before = initial_balance * MoneyScale

\* PositionManager.__init__ with the history variables of a fresh run
PmInit(initial_balance) ==
    /\ balance = initial_balance * MoneyScale
    /\ profit_account = 0
    /\ profit_taken_count = 0
    /\ current_position = None
    /\ position_log = <<>>
    /\ highest_price = None
    /\ trailing_stop = None
    /\ price_history = <<>>
    /\ atr = None
    /\ watch_mode = FALSE
    /\ watch_mode_entered = None
    /\ clock = 0
    /\ lastOp = [name |-> "__init__", raised |-> FALSE]
    /\ monitored = <<>>
    /\ balance_before = initial_balance * MoneyScale

\* StrategyManager.__init__
StrategyInit ==
    /\ current_action = "HOLD"
    /\ decided = None
    /\ sigCall = [name |-> "__init__", arg |-> None, result |-> None]

\* No orchestration script is running; TradeExecutor() defaults to mock mode.
NoLoop ==
    /\ loop = "none"
    /\ pc = "idle"
    /\ cycle = 0
    /\ live_price = None
    /\ calls = <<>>
    /\ cooldown_until = None
    /\ mock_mode = TRUE

\* fetch_historical_data has not been called.
NoFetch ==
    /\ kline_filter = "none"
    /\ start_time = None
    /\ end_time = None
    /\ all_data = <<>>
    /\ combined_data = None

Init ==
    /\ impl \in {"pm", "pm1"}
    /\ mode \in {"live", "backtest"}
    /\ PmInit(InitialBalance)
    /\ StrategyInit
    /\ NoLoop
    /\ NoFetch

\* ------------------------------------------------------- enter_position
\* Mutant: the "already active" check is missing.
AlreadyActiveNever(s) == FALSE

\* "if self.current_position": a position dict is never empty, so it is
\* truthy exactly when it is not None.
AlreadyActive(s) == s.current_position # None

\* Body of enter_position after the "already active" check.
PctStop(price) == price * (100 - TrailingStopPct) * 2 * AtrPeriod

UsedFunds(quantity, entry_price) ==
    IF impl = "pm1" /\ mode = "backtest"
    THEN quantity * entry_price * MoneyScale
    ELSE 0

\* Mutant: the initial stop is taken from the cached ATR when there is one.
DoEnterAtrStop(s, symbol, quantity, entry_price, reason) ==
    [s EXCEPT
        !.current_position = Some([symbol |-> symbol, quantity |-> quantity,
                                   entry_price |-> entry_price,
                                   entry_time |-> None, reason |-> reason]),
        !.balance = s.balance - UsedFunds(quantity, entry_price),
        !.highest_price = Some(entry_price),
        !.trailing_stop =
            IF s.atr # None /\ Val(s.atr) # 0
            THEN Some(entry_price * StopScale
                          - StopLossMultTwice * 100 * Val(s.atr))
            ELSE Some(PctStop(entry_price)),
        !.watch_mode = FALSE,
        !.watch_mode_entered = None]

DoEnter(s, symbol, quantity, entry_price, reason) ==
    [s EXCEPT
        !.current_position = Some([symbol |-> symbol, quantity |-> quantity,
                                   entry_price |-> entry_price,
                                   entry_time |-> None, reason |-> reason]),
        !.balance = s.balance - UsedFunds(quantity, entry_price),
        !.highest_price = Some(entry_price),
        !.trailing_stop = Some(PctStop(entry_price)),
        !.watch_mode = FALSE,
        !.watch_mode_entered = None]

\* -------------------------------------------------------- exit_position
\* Mutant: the fee is charged on the entry side only.
FeesEntrySideOnly(quantity, entry_price, exit_price) ==
    (entry_price * quantity) * (MoneyScale \div 1000)

Fees(quantity, entry_price, exit_price) ==
    (entry_price * quantity + exit_price * quantity) * (MoneyScale \div 1000)

Pnl(quantity, entry_price, exit_price) ==
    (exit_price - entry_price) * quantity * MoneyScale
        - Fees(quantity, entry_price, exit_price)

TargetBalance == (InitialBalance * MoneyScale * TargetPct) \div 100

\* Mutant: everything above the initial balance is skimmed.
ProfitToTakeAboveInitial(bal) ==
    IF impl = "pm1" /\ bal > TargetBalance
    THEN bal - InitialBalance * MoneyScale
    ELSE 0

\* Profit management exists in position_manager_1.py only.
ProfitToTake(bal) ==
    IF impl = "pm1" /\ bal > TargetBalance THEN bal - TargetBalance ELSE 0

TakesProfit(bal) == impl = "pm1" /\ bal > TargetBalance

\* Mutant: the record's entry_price is filled from the exit price.
ClosedPositionSwapped(s, pos, exit_price, exit_reason, timestamp, pnl, bal) ==
    IF impl = "pm1"
    THEN [symbol |-> pos.symbol, quantity |-> pos.quantity,
          entry_price |-> exit_price, exit_price |-> exit_price,
          pnl |-> pnl, reason |-> exit_reason, timestamp |-> timestamp,
          profit_taken |-> ProfitToTake(bal),
          profit_taken_count |->
              IF TakesProfit(bal) THEN s.profit_taken_count + 1
                                  ELSE s.profit_taken_count]
    ELSE [symbol |-> pos.symbol, quantity |-> pos.quantity,
          entry_price |-> exit_price, exit_price |-> exit_price,
          pnl |-> pnl, reason |-> exit_reason, timestamp |-> timestamp]

ClosedPosition(s, pos, exit_price, exit_reason, timestamp, pnl, bal) ==
    IF impl = "pm1"
    THEN [symbol |-> pos.symbol, quantity |-> pos.quantity,
          entry_price |-> pos.entry_price, exit_price |-> exit_price,
          pnl |-> pnl, reason |-> exit_reason, timestamp |-> timestamp,
          profit_taken |-> ProfitToTake(bal),
          profit_taken_count |->
              IF TakesProfit(bal) THEN s.profit_taken_count + 1
                                  ELSE s.profit_taken_count]
    ELSE [symbol |-> pos.symbol, quantity |-> pos.quantity,
          entry_price |-> pos.entry_price, exit_price |-> exit_price,
          pnl |-> pnl, reason |-> exit_reason, timestamp |-> timestamp]

\* Mutant: the record is logged, but the position and watch mode are not
\* reset.
DoExitLeavesPosition(s, exit_price, exit_reason, timestamp) ==
         LET pos == Val(s.current_position)
             pnl == Pnl(pos.quantity, pos.entry_price, exit_price)
             bal == s.balance + pnl
         IN [s EXCEPT
                !.balance = bal - ProfitToTake(bal),
                !.profit_account = s.profit_account + ProfitToTake(bal),
                !.profit_taken_count =
                    IF TakesProfit(bal) THEN s.profit_taken_count + 1
                                        ELSE s.profit_taken_count,
                !.position_log =
                    Append(s.position_log,
                           ClosedPosition(s, pos, exit_price, exit_reason,
                                          timestamp, pnl, bal))]

DoExit(s, exit_price, exit_reason, timestamp) ==
         LET pos == Val(s.current_position)
             pnl == Pnl(pos.quantity, pos.entry_price, exit_price)
             bal == s.balance + pnl
         IN [s EXCEPT
                !.balance = bal - ProfitToTake(bal),
                !.profit_account = s.profit_account + ProfitToTake(bal),
                !.profit_taken_count =
                    IF TakesProfit(bal) THEN s.profit_taken_count + 1
                                        ELSE s.profit_taken_count,
                !.position_log =
                    Append(s.position_log,
                           ClosedPosition(s, pos, exit_price, exit_reason,
                                          timestamp, pnl, bal)),
                !.current_position = None,
                !.highest_price = None,
                !.trailing_stop = None,
                !.watch_mode = FALSE,
                !.watch_mode_entered = None]

\* Mutant: without the "no active position" return a record is logged.
ExitPositionUnguarded(s, exit_price, exit_reason, timestamp) ==
    IF s.current_position = None
    THEN [s EXCEPT !.position_log =
              Append(s.position_log,
                     [exit_price |-> exit_price, reason |-> exit_reason,
                      timestamp |-> timestamp])]
    ELSE DoExit(s, exit_price, exit_reason, timestamp)

ExitPosition(s, exit_price, exit_reason, timestamp) ==
    IF s.current_position = None
    THEN s
    ELSE DoExit(s, exit_price, exit_reason, timestamp)

\* -------------------------------------------------------- calculate_atr
TrueRange(prices, i) ==
    Max3(prices[i].high - prices[i].low,
         Abs(prices[i].high - prices[i - 1].close),
         Abs(prices[i].low - prices[i - 1].close))

RECURSIVE SumTr(_, _)
SumTr(prices, i) ==
    IF i < 2 THEN 0 ELSE SumTr(prices, i - 1) + TrueRange(prices, i)

\* Mutant: atr_period samples are taken to be enough.
CalculateAtrShortWindow(s) ==
    IF Len(s.price_history) < AtrPeriod
    THEN None
    ELSE Some(SumTr(s.price_history, Len(s.price_history)))

\* The result is the sum of the true ranges: atr = result / AtrPeriod.
CalculateAtr(s) ==
    IF Len(s.price_history) < AtrPeriod + 1
    THEN None
    ELSE Some(SumTr(s.price_history, Len(s.price_history)))

\* ---------------------------------------------------------- update_risk
\* "if self.atr": None and 0.0 are both falsy.
AtrTruthy(s) == s.atr # None /\ Val(s.atr) # 0

AtrStop(highest, atrSum) ==
    highest * StopScale - StopLossMultTwice * 100 * atrSum

NewStop(s, highest) ==
    IF AtrTruthy(s) THEN AtrStop(highest, Val(s.atr)) ELSE PctStop(highest)

\* Mutant: the comparison with the previous highest price is missing.
IsNewHighAlways(s, current_price) == TRUE

IsNewHigh(s, current_price) ==
    s.highest_price = None \/ current_price > Val(s.highest_price)

\* Mutant: a new high also reprices the position's entry.
UpdateHighestRepricesEntry(s, current_price) ==
    IF IsNewHigh(s, current_price)
    THEN [s EXCEPT !.highest_price = Some(current_price),
                   !.trailing_stop = Some(NewStop(s, current_price)),
                   !.current_position =
                       Some([Val(s.current_position)
                                EXCEPT !.entry_price = current_price])]
    ELSE s

UpdateHighest(s, current_price) ==
    IF IsNewHigh(s, current_price)
    THEN [s EXCEPT !.highest_price = Some(current_price),
                   !.trailing_stop = Some(NewStop(s, current_price))]
    ELSE s

WatchPct == IF impl = "pm" THEN WatchPctPm ELSE WatchPctPm1

ReachesWatch(entry_price, current_price) ==
    current_price * 100 >= entry_price * WatchPct

\* Mutant: watch_mode is recomputed from the current price on every call.
ActivateWatchRecomputed(s, current_price, timestamp) ==
    IF ReachesWatch(Val(s.current_position).entry_price, current_price)
    THEN [s EXCEPT !.watch_mode = TRUE,
                   !.watch_mode_entered =
                       IF s.watch_mode THEN s.watch_mode_entered
                                       ELSE timestamp]
    ELSE [s EXCEPT !.watch_mode = FALSE, !.watch_mode_entered = None]

ActivateWatch(s, current_price, timestamp) ==
    IF ~s.watch_mode /\ ReachesWatch(Val(s.current_position).entry_price,
                                     current_price)
    THEN [s EXCEPT !.watch_mode = TRUE, !.watch_mode_entered = timestamp]
    ELSE s

\* Mutant: the stop is hit only by a price strictly below it.
StopHitStrictlyBelow(s, current_price) ==
    /\ s.watch_mode
    /\ s.trailing_stop # None
    /\ Val(s.trailing_stop) # 0
    /\ current_price * StopScale < Val(s.trailing_stop)

\* "self.watch_mode and self.trailing_stop and current_price <= stop"
StopHit(s, current_price) ==
    /\ s.watch_mode
    /\ s.trailing_stop # None
    /\ Val(s.trailing_stop) # 0
    /\ current_price * StopScale <= Val(s.trailing_stop)

\* position_manager_1.py returns right after the watch-mode block when the
\* position was not in watch mode at that point.
ReturnsBeforeStopCheck(s) == impl = "pm1" /\ ~s.watch_mode

\* Mutant: the trailing stop is enforced whether or not watch mode is on.
UpdateRiskStopAnyMode(s, current_price, timestamp) ==
    IF s.current_position = None
    THEN s
    ELSE LET s1 == UpdateHighest(s, current_price)
             s2 == ActivateWatch(s1, current_price, timestamp)
         IN IF /\ s2.trailing_stop # None
               /\ current_price * StopScale <= Val(s2.trailing_stop)
            THEN ExitPosition(s2, current_price, "Trailing Stop", timestamp)
            ELSE s2

UpdateRisk(s, current_price, timestamp) ==
    IF s.current_position = None
    THEN s
    ELSE LET s1 == UpdateHighest(s, current_price)
             s2 == ActivateWatch(s1, current_price, timestamp)
         IN IF ReturnsBeforeStopCheck(s1)
            THEN s2
            ELSE IF StopHit(s2, current_price)
                 THEN ExitPosition(s2, current_price, "Trailing Stop",
                                   timestamp)
                 ELSE s2

\* ----------------------------------------------------- monitor_position
\* Mutant: the deque has no maxlen.
DequeAppendUnbounded(q, x) == Append(q, x)

\* deque(maxlen = atr_period + 1).append
DequeAppend(q, x) ==
    IF Len(q) >= AtrPeriod + 1 THEN Append(Tail(q), x) ELSE Append(q, x)

Candle(current_price, high, low) ==
    IF high = None \/ low = None
    THEN [high |-> current_price, low |-> current_price,
          close |-> current_price]
    ELSE [high |-> Val(high), low |-> Val(low), close |-> current_price]

IsRedCandle(current_price, open_price) ==
    IF impl = "pm"
    THEN current_price * 100 + open_price * RedTolerancePct < open_price * 100
    ELSE current_price < open_price

\* monitor_position up to and including its update_risk call
RiskUpdated(s, current_price, high, low, timestamp) ==
    LET s1 == [s EXCEPT !.price_history =
                   DequeAppend(s.price_history,
                               Candle(current_price, high, low))]
        s2 == [s1 EXCEPT !.atr = CalculateAtr(s1)]
    IN UpdateRisk(s2, current_price, timestamp)

\* Mutant: the sample is recorded and the ATR recomputed before the
\* "no active position" return.
MonitorPositionWhenFlat(s, current_price, open_price, high, low, timestamp) ==
    IF s.current_position = None
    THEN LET s1 == [s EXCEPT !.price_history =
                        DequeAppend(s.price_history,
                                    Candle(current_price, high, low))]
         IN [s1 EXCEPT !.atr = CalculateAtr(s1)]
    ELSE LET s3 == RiskUpdated(s, current_price, high, low, timestamp)
         IN IF s3.watch_mode /\ open_price # None
               /\ IsRedCandle(current_price, Val(open_price))
            THEN ExitPosition(s3, current_price, "Watch Mode Red Candle",
                              timestamp)
            ELSE s3

MonitorPosition(s, current_price, open_price, high, low, timestamp) ==
    IF s.current_position = None
    THEN s
    ELSE LET s3 == RiskUpdated(s, current_price, high, low, timestamp)
         IN IF s3.watch_mode /\ open_price # None
               /\ IsRedCandle(current_price, Val(open_price))
            THEN ExitPosition(s3, current_price, "Watch Mode Red Candle",
                              timestamp)
            ELSE s3

\* -------------------------------------------------------------- actions
\* One step per public method call; the *Step definitions name the call's
\* arguments, the *Call definitions draw them from the input sets.
Tick ==
    /\ clock < MaxSteps
    /\ clock' = clock + 1
    /\ balance_before' = balance
    /\ UNCHANGED <<sigvars, loopvars, fetchvars>>

Op(name, raised) == [name |-> name, raised |-> raised]

\* History of monitored prices: cleared when no position is open after the
\* call, extended by a monitor/update_risk call on an open position.
Track(price) ==
    monitored' = IF current_position' = None THEN <<>>
                 ELSE IF current_position = None THEN <<>>
                 ELSE Append(monitored, price)

\* Mutant: a new position starts with an empty window and no ATR.
EnterStepClearsWindow(symbol, quantity, entry_price, reason) ==
    /\ Tick
    /\ IF AlreadyActive(Self)
       THEN /\ UNCHANGED pmvars
            /\ UNCHANGED monitored
            /\ lastOp' = Op("enter_position", TRUE)
       ELSE /\ Store([DoEnter(Self, symbol, quantity, entry_price, reason)
                         EXCEPT !.price_history = <<>>, !.atr = None])
            /\ monitored' = <<>>
            /\ lastOp' = Op("enter_position", FALSE)
    /\ UNCHANGED <<impl, mode>>

EnterStep(symbol, quantity, entry_price, reason) ==
    /\ Tick
    /\ IF AlreadyActive(Self)
       THEN /\ UNCHANGED pmvars
            /\ UNCHANGED monitored
            /\ lastOp' = Op("enter_position", TRUE)
       ELSE /\ Store(DoEnter(Self, symbol, quantity, entry_price, reason))
            /\ monitored' = <<>>
            /\ lastOp' = Op("enter_position", FALSE)
    /\ UNCHANGED <<impl, mode>>

ExitStep(exit_price, exit_reason, timestamp) ==
    /\ Tick
    /\ Store(ExitPosition(Self, exit_price, exit_reason, timestamp))
    /\ monitored' = <<>>
    /\ lastOp' = Op("exit_position", FALSE)
    /\ UNCHANGED <<impl, mode>>

UpdateRiskStep(current_price, timestamp) ==
    /\ Tick
    /\ Store(UpdateRisk(Self, current_price, timestamp))
    /\ Track(current_price)
    /\ lastOp' = Op("update_risk", FALSE)
    /\ UNCHANGED <<impl, mode>>

MonitorStep(current_price, open_price, high, low, timestamp) ==
    /\ Tick
    /\ Store(MonitorPosition(Self, current_price, open_price, high, low,
                             timestamp))
    /\ Track(current_price)
    /\ lastOp' = Op("monitor_position", FALSE)
    /\ UNCHANGED <<impl, mode>>

\* timestamp arguments: omitted (None) or the time of the call
Timestamps == {None, Some(clock + 1)}
OptOpenPrices == {None} \cup {Some(p) : p \in OpenPrices}

\* high/low as the callers supply them: omitted, or the range of the candle
HighLows(current_price) ==
    {<<None, None>>, <<Some(MaxPrice), Some(MinPrice)>>}

EnterPositionCall ==
    \E symbol \in Symbols, quantity \in Quantities, entry_price \in Prices,
       reason \in Reasons :
        EnterStep(symbol, quantity, entry_price, reason)

ExitPositionCall ==
    \E exit_price \in Prices, timestamp \in Timestamps :
        ExitStep(exit_price, "SELL Signal", timestamp)

UpdateRiskCall ==
    \E current_price \in Prices, timestamp \in Timestamps :
        UpdateRiskStep(current_price, timestamp)

MonitorPositionCall ==
    \E current_price \in Prices, open_price \in OptOpenPrices,
       timestamp \in Timestamps :
        \E hl \in HighLows(current_price) :
            MonitorStep(current_price, open_price, hl[1], hl[2], timestamp)

Next ==
    \/ EnterPositionCall
    \/ ExitPositionCall
    \/ UpdateRiskCall
    \/ MonitorPositionCall

Spec == Init /\ [][Next]_vars

\* ---- the volatility window: enter, exit and monitor_position with every
\* combination of supplied and omitted high and low
OptHighs == {None, Some(MaxPrice)}
OptLows == {None, Some(MinPrice)}

MonitorCandleCall ==
    \E current_price \in Prices, high \in OptHighs, low \in OptLows :
        MonitorStep(current_price, None, high, low, None)

NextWindow ==
    \/ EnterPositionCall
    \/ ExitPositionCall
    \/ MonitorCandleCall

SpecWindow == Init /\ [][NextWindow]_vars

TypeOK ==
    /\ impl \in {"pm", "pm1"}
    /\ mode \in {"live", "backtest"}
    /\ balance \in Int
    /\ Len(price_history) <= AtrPeriod + 1
    /\ watch_mode \in BOOLEAN
    /\ clock \in 0..MaxSteps

\* ============================================================ signals
\* SignalManager.generate_signals, StrategyManager and combine_signals.
\* A cell that is not a number becomes NaN in validate_and_clean_data; the
\* model writes NaN as -1 (prices and volumes are positive).
MaxBars == 2             \* rows in one fetched series

ShortWindow == 12        \* calculate_macd(short_window = 12)
LongWindow == 26         \* calculate_macd(long_window = 26)
SignalWindow == 9        \* calculate_macd(signal_window = 9)
RsiPeriod == 14          \* calculate_rsi(period = 14)
RsiOversold == 30        \* rsi < 30
RsiOverbought == 70      \* rsi > 70
VolumeTail == 20         \* data.tail(20)
VolumeThresholdTwice == 3 \* threshold = 1.5           (in halves)

NaN == 0 - 1
Intervals == {"15m", "1h"}
Bars == {[close |-> 100, volume |-> 10], [close |-> 110, volume |-> 40],
         [close |-> NaN, volume |-> 10]}
Series == UNION {[1..n -> Bars] : n \in 0..MaxBars}
MarketData == UNION {[D -> Series] : D \in SUBSET Intervals}

Indicators == {"MACD", "RSI", "Volume"}

RECURSIVE Pow(_, _)
Pow(b, e) == IF e = 0 THEN 1 ELSE b * Pow(b, e - 1)

RECURSIVE SumSeq(_)
SumSeq(seq) == IF seq = <<>> THEN 0 ELSE seq[1] + SumSeq(Tail(seq))

LastRows(seq, n) ==
    IF Len(seq) <= n THEN seq ELSE SubSeq(seq, Len(seq) - n + 1, Len(seq))

\* validate_and_clean_data: dropna on the numeric columns
IsClean(bar) == bar.close # NaN /\ bar.volume # NaN
ValidateAndCleanData(data) == SelectSeq(data, IsClean)

CloseColumn(data) == [i \in 1..Len(data) |-> data[i].close]
VolumeColumn(data) == [i \in 1..Len(data) |-> data[i].volume]

\* Series.ewm(span, adjust=False).mean(): y[1] = x[1],
\* y[t] = ((span - 1) * y[t-1] + 2 * x[t]) / (span + 1).
\* EwmNum(x, span, t) is y[t] * (span + 1)^(t - 1).
RECURSIVE EwmNum(_, _, _)
EwmNum(x, span, t) ==
    IF t = 1 THEN x[1]
    ELSE (span - 1) * EwmNum(x, span, t - 1)
            + 2 * x[t] * Pow(span + 1, t - 2)

\* macd[t] = short_ema[t] - long_ema[t], as a multiple of
\* 1 / ((ShortWindow + 1) * (LongWindow + 1))^(n - 1)
MacdUnit == (ShortWindow + 1) * (LongWindow + 1)
MacdAt(close, t, n) ==
    (EwmNum(close, ShortWindow, t) * Pow(LongWindow + 1, t - 1)
        - EwmNum(close, LongWindow, t) * Pow(ShortWindow + 1, t - 1))
    * Pow(MacdUnit, n - t)

\* signal = macd.ewm(span = SignalWindow, adjust=False).mean();
\* SignalNum(close, t, n) is signal[t] in the unit of MacdAt, multiplied by
\* (SignalWindow + 1)^(t - 1)
RECURSIVE SignalNum(_, _, _)
SignalNum(close, t, n) ==
    IF t = 1 THEN MacdAt(close, 1, n)
    ELSE (SignalWindow - 1) * SignalNum(close, t - 1, n)
            + 2 * MacdAt(close, t, n) * Pow(SignalWindow + 1, t - 2)

\* macd.iloc[-1] > signal.iloc[-1]
MacdAboveSignal(close) ==
    LET n == Len(close)
    IN MacdAt(close, n, n) * Pow(SignalWindow + 1, n - 1)
          > SignalNum(close, n, n)

\* Mutant: a MACD equal to its signal line is labelled HOLD.
MacdLabelHoldOnEqual(close) ==
    LET n == Len(close)
    IN IF MacdAboveSignal(close) THEN "BUY"
       ELSE IF MacdAt(close, n, n) * Pow(SignalWindow + 1, n - 1)
                  = SignalNum(close, n, n)
            THEN "HOLD"
       ELSE "SELL"

MacdLabel(close) == IF MacdAboveSignal(close) THEN "BUY" ELSE "SELL"

\* calculate_rsi: rolling(window = period).mean() of the gains and of the
\* losses is NaN until `period` rows exist (the first row's delta is NaN and
\* counts as gain 0 and loss 0); every comparison with NaN is false.
Gain(close, i) ==
    IF i > 1 /\ close[i] > close[i - 1] THEN close[i] - close[i - 1] ELSE 0
Loss(close, i) ==
    IF i > 1 /\ close[i] < close[i - 1] THEN close[i - 1] - close[i] ELSE 0
RsiLabel(close) ==
    LET n == Len(close)
    IN IF n < RsiPeriod THEN "Neutral"
       ELSE LET g == SumSeq([k \in 1..RsiPeriod |->
                                Gain(close, n - RsiPeriod + k)])
                l == SumSeq([k \in 1..RsiPeriod |->
                                Loss(close, n - RsiPeriod + k)])
            IN IF 100 * g < RsiOversold * (g + l) THEN "Oversold"
               ELSE IF 100 * g > RsiOverbought * (g + l) THEN "Overbought"
               ELSE "Neutral"

\* calculate_volume_signal
VolumeLabel(volume) ==
    LET recent == LastRows(volume, VolumeTail)
        n == Len(recent)
        total == SumSeq(recent)
        current == recent[n]
    IN IF 2 * n * current > VolumeThresholdTwice * total THEN "High Volume"
       ELSE IF VolumeThresholdTwice * n * current < 2 * total
            THEN "Low Volume"
       ELSE "Neutral"

IndicatorLabel(indicator, data) ==
    CASE indicator = "MACD" -> MacdLabel(CloseColumn(data))
      [] indicator = "RSI" -> RsiLabel(CloseColumn(data))
      [] indicator = "Volume" -> VolumeLabel(VolumeColumn(data))

\* generate_signals: an interval whose cleaned data is empty raises inside
\* the try block (iloc[-1] of an empty series) and gets no label at all.
Labelled(market_data) ==
    {iv \in DOMAIN market_data :
        ValidateAndCleanData(market_data[iv]) # <<>>}
GenerateSignals(market_data) ==
    [k \in Indicators \X Labelled(market_data) |->
        IndicatorLabel(k[1], ValidateAndCleanData(market_data[k[2]]))]

\* ---- StrategyManager
\* str.upper() on the labels that occur
Upper(label) ==
    CASE label = "sell" -> "SELL"
      [] label = "Neutral" -> "NEUTRAL"
      [] label = "Oversold" -> "OVERSOLD"
      [] label = "Overbought" -> "OVERBOUGHT"
      [] label = "High Volume" -> "HIGH VOLUME"
      [] label = "Low Volume" -> "LOW VOLUME"
      [] OTHER -> label

\* Mutant: an oversold RSI counts as a vote to buy.
BuySignalsWithOversold(signals) ==
    {k \in DOMAIN signals : Upper(signals[k]) \in {"BUY", "OVERSOLD"}}

\* aggregate_signals: the (indicator, timeframe) pairs voting BUY / SELL
BuySignals(signals) == {k \in DOMAIN signals : Upper(signals[k]) = "BUY"}
SellSignals(signals) == {k \in DOMAIN signals : Upper(signals[k]) = "SELL"}

\* Mutant: BUY votes are looked at first.
ProcessSignalsBuyFirst(signals) ==
    IF BuySignals(signals) # {} THEN "BUY"
    ELSE IF SellSignals(signals) # {} THEN "SELL"
    ELSE "HOLD"

ProcessSignals(signals) ==
    IF SellSignals(signals) # {} THEN "SELL"
    ELSE IF BuySignals(signals) # {} THEN "BUY"
    ELSE "HOLD"

\* ---- skeleton_main_backtest.combine_signals
\* Mutant: a BUY on either timeframe is enough.
CombineSignalsEitherBuy(signal_15m, signal_1h) ==
    IF signal_15m = "BUY" \/ signal_1h = "BUY" THEN "BUY"
    ELSE IF signal_15m = "SELL" \/ signal_1h = "SELL" THEN "SELL"
    ELSE "HOLD"

CombineSignals(signal_15m, signal_1h) ==
    IF signal_15m = "BUY" /\ signal_1h = "BUY" THEN "BUY"
    ELSE IF signal_15m = "SELL" \/ signal_1h = "SELL" THEN "SELL"
    ELSE "HOLD"

\* ---- calls of the signal pipeline
VoteLabels == {"BUY", "SELL", "sell", "Neutral"}
VotePairs == {<<"MACD", "15m">>, <<"MACD", "1h">>, <<"RSI", "15m">>}
SignalSets == UNION {[D -> VoteLabels] : D \in SUBSET VotePairs}
TradeLabels == {"BUY", "SELL", "HOLD"}

SigCall(name, arg, result) == [name |-> name, arg |-> arg, result |-> result]

GenerateSignalsCall ==
    /\ \E market_data \in MarketData :
          sigCall' = SigCall("generate_signals", market_data,
                             GenerateSignals(market_data))
    /\ UNCHANGED <<current_action, decided>>
    /\ UNCHANGED <<fetchvars, impl, mode, pmvars, histvars, loopvars>>

ProcessSignalsCall ==
    /\ \E signals \in SignalSets :
          /\ current_action' = ProcessSignals(signals)
          /\ decided' = Some(current_action')
          /\ sigCall' = SigCall("process_signals", signals, current_action')
    /\ UNCHANGED <<fetchvars, impl, mode, pmvars, histvars, loopvars>>

GetActionCall ==
    /\ sigCall' = SigCall("get_action", None, current_action)
    /\ UNCHANGED <<current_action, decided>>
    /\ UNCHANGED <<fetchvars, impl, mode, pmvars, histvars, loopvars>>

CombineSignalsCall ==
    /\ \E signal_15m \in TradeLabels, signal_1h \in TradeLabels :
          sigCall' = SigCall("combine_signals", <<signal_15m, signal_1h>>,
                             CombineSignals(signal_15m, signal_1h))
    /\ UNCHANGED <<current_action, decided>>
    /\ UNCHANGED <<fetchvars, impl, mode, pmvars, histvars, loopvars>>

\* the labels generate_signals writes, on one pair of each indicator
SignalLabels == {"BUY", "SELL", "Oversold", "Overbought", "Neutral",
                 "High Volume", "Low Volume"}
AggregatePairs == {<<"MACD", "15m">>, <<"RSI", "1h">>, <<"Volume", "15m">>}
LabelledSignals == UNION {[D -> SignalLabels] : D \in SUBSET AggregatePairs}

\* aggregate_signals returns (buy_signals, sell_signals)
AggregateSignals(signals) ==
    [buy_signals |-> BuySignals(signals),
     sell_signals |-> SellSignals(signals)]

AggregateSignalsCall ==
    /\ \E signals \in LabelledSignals :
          sigCall' = SigCall("aggregate_signals", signals,
                             AggregateSignals(signals))
    /\ UNCHANGED <<current_action, decided>>
    /\ UNCHANGED <<fetchvars, impl, mode, pmvars, histvars, loopvars>>

InitSignals ==
    /\ impl = "pm"
    /\ mode = "live"
    /\ PmInit(InitialBalance)
    /\ StrategyInit
    /\ NoLoop
    /\ NoFetch

\* generate_signals called on one fetched data set after another
NextSignals == GenerateSignalsCall

SpecSignals == InitSignals /\ [][NextSignals]_vars

\* the decision functions called in any order
NextStrategy ==
    \/ ProcessSignalsCall
    \/ GetActionCall
    \/ CombineSignalsCall
    \/ AggregateSignalsCall

SpecStrategy == InitSignals /\ [][NextStrategy]_vars

\* ============================================================== loops
\* The orchestration scripts: skeleton_main.py ("main") and skeleton_main2.py
\* ("main2") poll the exchange once a minute, skeleton_main_backtest.py
\* ("backtest") walks over the 15m candles.  All three import PositionManager
\* from position_manager.py.  One cycle is: fetch_price, signals, trade,
\* monitor, then sleep (live) or next (backtest).
MaxCycles == 3           \* cycles of a live run, candles of a backtest

LiveInitialBalance == 10000  \* PositionManager(initial_balance=10000)
CooldownCandles == 15    \* cooldown_duration = 15 * candle_interval
BacktestFundsPct == 99   \* 0.99 * available_usdt     (per cent)
LiveFundsPct == 85       \* usdt_balance * 0.85       (per cent)
SellPricePct == 99       \* live_price * 0.99         (per cent)
MinSharePct == 10        \* quote_pct < 10, base_pct < 10

LiveLoops == {"main", "main2"}
Loops == LiveLoops \cup {"backtest"}

\* prices and account balances for which the scripts' quantities are whole
LivePrices == {100, 200}
CandleCloses == {1, 90, 110, 165}
CandleOpens == {111, 165}
Accounts ==
    {None,
     Some([base_balance |-> 0, quote_balance |-> 4000]),
     Some([base_balance |-> 34, quote_balance |-> 0]),
     Some([base_balance |-> 34, quote_balance |-> 4000])}

\* what client.create_order answers: an order with the exchange's status,
\* or an exception, which execute_trade turns into status ERROR
Responses == {[status |-> st] : st \in {"SUCCESS", "FILLED", "ERROR"}}
\* time.strftime("%Y-%m-%d %H:%M:%S")
TimeString == "timestamp"

Event(call, arg, result) == [call |-> call, arg |-> arg, result |-> result]

InitLoops ==
    /\ loop \in Loops
    /\ impl = "pm"
    /\ mode = IF loop = "backtest" THEN "backtest" ELSE "live"
    /\ PmInit(IF loop = "backtest" THEN InitialBalance
              ELSE LiveInitialBalance)
    /\ StrategyInit
    /\ pc = "fetch_price"
    /\ cycle = 1
    /\ live_price = None
    /\ calls = <<>>
    /\ cooldown_until = None
    /\ mock_mode = (loop = "backtest")
    /\ NoFetch

\* Mutant: the cycle is not wrapped in try/except.
ExceptPropagates == "terminated"

\* "except Exception as e: logging.error(...); time.sleep(60)": where the
\* live scripts continue after an exception inside the cycle
ExceptHandler == "sleep"

Raise(log, error) ==
    /\ calls' = Append(log, Event("raise", error, "caught"))
    /\ pc' = ExceptHandler

\* ---- step 1: the price of the cycle
FetchLivePrice ==
    /\ loop \in LiveLoops
    /\ pc = "fetch_price"
    /\ \/ \E price \in LivePrices :
             /\ live_price' = Some(price)
             /\ calls' = <<>>
             /\ pc' = "signals"
       \/ /\ live_price' = None        \* RequestException: returns None
          /\ calls' = <<>>
          /\ pc' = "sleep"
       \/ /\ live_price' = None        \* any other exception propagates
          /\ Raise(<<>>, "fetch_live_price")
    /\ UNCHANGED <<fetchvars, impl, mode, pmvars, histvars, sigvars>>
    /\ UNCHANGED <<loop, cycle, cooldown_until, mock_mode>>

\* backtest: the row of the candle and its precomputed MACD trade signals;
\* a candle older than every 1h candle is skipped ("continue")
ReadCandle ==
    /\ loop = "backtest"
    /\ pc = "fetch_price"
    /\ \E close \in CandleCloses :
          /\ live_price' = Some(close)
          /\ calls' = <<>>
          /\ \/ \E signal_15m \in {"BUY", "SELL"},
                   signal_1h \in {"BUY", "SELL"} :
                   /\ sigCall' = SigCall("combine_signals",
                                         <<signal_15m, signal_1h>>,
                                         CombineSignals(signal_15m, signal_1h))
                   /\ pc' = "trade"
             \/ /\ UNCHANGED sigCall
                /\ pc' = "next"
    /\ UNCHANGED <<fetchvars, impl, mode, pmvars, histvars, current_action, decided>>
    /\ UNCHANGED <<loop, cycle, cooldown_until, mock_mode>>

\* ---- step 2 and 3 of the live scripts: signals and strategy action
NonEmpty(market_data) ==
    {iv \in DOMAIN market_data : market_data[iv] # <<>>}
\* fetch_multiple_timeframes: the intervals that returned rows
FetchMultipleTimeframes(market_data) ==
    [iv \in NonEmpty(market_data) |-> market_data[iv]]
\* get_latest_market_data: data.iloc[-1:] of the intervals that returned rows
GetLatestMarketData(market_data) ==
    [iv \in NonEmpty(market_data) |-> LastRows(market_data[iv], 1)]
LoopMarketData(market_data) ==
    IF loop = "main2" THEN GetLatestMarketData(market_data)
    ELSE FetchMultipleTimeframes(market_data)

DecideAction ==
    /\ loop \in LiveLoops
    /\ pc = "signals"
    /\ \/ \E market_data \in MarketData :
             LET action == ProcessSignals(
                               GenerateSignals(LoopMarketData(market_data)))
             IN /\ current_action' = action
                /\ decided' = Some(action)
                /\ sigCall' = SigCall("get_action", None, action)
                /\ pc' = "trade"
                /\ UNCHANGED calls
       \/ /\ Raise(calls, "fetch_historical_data")
          /\ UNCHANGED sigvars
    /\ UNCHANGED <<fetchvars, impl, mode, pmvars, histvars>>
    /\ UNCHANGED <<loop, cycle, live_price, cooldown_until, mock_mode>>

\* ---- step 4: the trade
\* Mutant: the scripts do not look at current_position before a BUY.
NoOpenPositionUnchecked(s) == TRUE

\* "not position_manager.current_position" / "current_position is None"
NoOpenPosition(s) == s.current_position = None

\* execute_trade assigns self.mock_mode = False before it tests it, so the
\* MOCK_SUCCESS branch is dead and the client's answer is returned.
ExecuteTrade(mock, response) ==
    LET mock1 == FALSE
    IN IF mock1 THEN [status |-> "MOCK_SUCCESS"] ELSE response

\* "x_pct < 10", with x_pct = 0 when the portfolio is empty
LowShare(value, total) ==
    IF total > 0 THEN value * 100 < MinSharePct * total ELSE TRUE

\* truncate(usdt_balance * 0.85 / live_price, 3)
LiveQuantity(usdt_balance, price) ==
    (LiveFundsPct * usdt_balance) \div (100 * price)

\* Mutant: the entry is sized at twice the available funds.
BacktestQuantityLeveraged(available_usdt, price) ==
    (2 * BacktestFundsPct * available_usdt) \div (100 * price * MoneyScale)

\* (0.99 * available_usdt) / current_price, available_usdt in 1/MoneyScale
BacktestQuantity(available_usdt, price) ==
    (BacktestFundsPct * available_usdt) \div (100 * price * MoneyScale)
SellPrice(price) == (price * SellPricePct) \div 100

Skip == UNCHANGED <<pmvars, calls, live_price, mock_mode>>

\* position_manager.enter_position(...) called by a script
CallEnter(log, quantity, price, reason, then, handler) ==
    IF AlreadyActive(Self)
    THEN /\ UNCHANGED pmvars
         /\ calls' = Append(Append(log,
                                   Event("enter_position", reason, "raised")),
                            Event("raise", "enter_position", handler))
         /\ pc' = handler
    ELSE /\ Store(DoEnter(Self, "LTCUSDT", quantity, price, reason))
         /\ calls' = Append(log, Event("enter_position", reason, "ok"))
         /\ pc' = then

MainBuy(account, price, response) ==
    LET order == ExecuteTrade(mock_mode, response)
        placed == Append(calls, Event("execute_trade", "BUY", order.status))
    IN /\ mock_mode' = FALSE
       /\ UNCHANGED live_price
       /\ IF order.status \in {"SUCCESS", "MOCK_SUCCESS"}
          THEN CallEnter(placed, LiveQuantity(account.quote_balance, price),
                         price, "Strategy Buy Signal", "monitor",
                         ExceptHandler)
          ELSE /\ calls' = placed
               /\ pc' = "monitor"
               /\ UNCHANGED pmvars

MainSell(account, price, response) ==
    LET order == ExecuteTrade(mock_mode, response)
        placed == Append(calls, Event("execute_trade", "SELL", order.status))
    IN /\ mock_mode' = FALSE
       /\ live_price' = Some(SellPrice(price))
       /\ pc' = "monitor"
       /\ IF order.status = "SUCCESS"
          THEN /\ Store(ExitPosition(Self, SellPrice(price),
                                     "Strategy Sell Signal", None))
               /\ calls' = Append(placed,
                                  Event("exit_position",
                                        "Strategy Sell Signal", "ok"))
          ELSE /\ calls' = placed
               /\ UNCHANGED pmvars

TradeMain ==
    /\ loop = "main"
    /\ pc = "trade"
    /\ \E account \in Accounts, response \in Responses :
          LET price == Val(live_price)
              base_value == Val(account).base_balance * price
              total == base_value + Val(account).quote_balance
          IN IF account = None
             THEN Skip /\ pc' = "monitor"
             ELSE IF current_action = "BUY"
             THEN IF LowShare(Val(account).quote_balance, total)
                  THEN Skip /\ pc' = "monitor"
                  ELSE IF NoOpenPosition(Self)
                  THEN MainBuy(Val(account), price, response)
                  ELSE Skip /\ pc' = "monitor"
             ELSE IF current_action = "SELL"
             THEN IF LowShare(base_value, total)
                  THEN Skip /\ pc' = "monitor"
                  ELSE IF Val(account).base_balance > 0
                  THEN MainSell(Val(account), price, response)
                  ELSE Skip /\ pc' = "monitor"
             ELSE Skip /\ pc' = "monitor"
    /\ UNCHANGED <<fetchvars, impl, mode, histvars, sigvars>>
    /\ UNCHANGED <<loop, cycle, cooldown_until>>

\* skeleton_main2.py calls trade_executor.execute_order, which TradeExecutor
\* does not define: the call raises AttributeError.
TradeMain2 ==
    /\ loop = "main2"
    /\ pc = "trade"
    /\ IF \/ current_action = "BUY" /\ NoOpenPosition(Self)
          \/ current_action = "SELL" /\ ~NoOpenPosition(Self)
       THEN /\ Raise(calls, "execute_order")
            /\ UNCHANGED <<pmvars, live_price, mock_mode>>
       ELSE Skip /\ pc' = "monitor"
    /\ UNCHANGED <<fetchvars, impl, mode, histvars, sigvars>>
    /\ UNCHANGED <<loop, cycle, cooldown_until>>

\* "cooldown_until is not None and ts <= cooldown_until"
InCooldown == cooldown_until # None /\ cycle <= Val(cooldown_until)

BacktestBuy(price, response) ==
    LET order == ExecuteTrade(mock_mode, response)
        quantity == BacktestQuantity(balance, price)
    IN IF AlreadyActive(Self)
       THEN /\ CallEnter(calls, quantity, price, "Signal BUY", "monitor",
                         "terminated")
            /\ UNCHANGED <<live_price, mock_mode>>
       ELSE /\ Store(DoEnter(Self, "LTCUSDT", quantity, price, "Signal BUY"))
            /\ calls' = Append(Append(calls,
                                  Event("enter_position", "Signal BUY", "ok")),
                               Event("execute_trade", "BUY", order.status))
            /\ mock_mode' = FALSE
            /\ pc' = "monitor"
            /\ UNCHANGED live_price

TradeBacktest ==
    /\ loop = "backtest"
    /\ pc = "trade"
    /\ LET price == Val(live_price)
           combined_signal == sigCall.result
       IN IF InCooldown
          THEN Skip /\ pc' = "monitor" /\ UNCHANGED cooldown_until
          ELSE IF NoOpenPosition(Self) /\ combined_signal = "BUY"
          THEN /\ cooldown_until' = None
               /\ IF balance * 10 >= balance
                  THEN \E response \in Responses : BacktestBuy(price, response)
                  ELSE Skip /\ pc' = "monitor"
          ELSE IF ~NoOpenPosition(Self) /\ combined_signal = "SELL"
          THEN /\ Store(ExitPosition(Self, price, "SELL Signal", Some(cycle)))
               /\ calls' = Append(calls,
                                  Event("exit_position", "SELL Signal", "ok"))
               /\ cooldown_until' = Some(cycle + CooldownCandles)
               /\ pc' = "monitor"
               /\ UNCHANGED <<live_price, mock_mode>>
          ELSE Skip /\ pc' = "monitor" /\ cooldown_until' = None
    /\ UNCHANGED <<fetchvars, impl, mode, histvars, sigvars>>
    /\ UNCHANGED <<loop, cycle>>

\* ---- step 5: risk management
\* The live scripts call monitor_position(live_price, high, low, timestamp)
\* positionally, so open_price = high, high = low, low = timestamp (a
\* string) and timestamp = None.  Once the window is full, calculate_atr
\* subtracts the string and raises TypeError after the append.
MonitorLive ==
    /\ loop \in LiveLoops
    /\ pc = "monitor"
    /\ \/ Skip /\ pc' = "sleep"      \* get_current_high_low: (None, None)
       \/ LET price == Val(live_price)
              open_price == Some(MaxPrice)
              high == Some(MinPrice)
              low == Some(TimeString)
              appended == DequeAppend(price_history, Candle(price, high, low))
          IN /\ UNCHANGED <<live_price, mock_mode>>
             /\ IF current_position # None /\ Len(appended) >= AtrPeriod + 1
                THEN /\ Store([Self EXCEPT !.price_history = appended])
                     /\ Raise(Append(calls, Event("monitor_position", "",
                                                  "raised")),
                              "calculate_atr")
                ELSE /\ Store(MonitorPosition(Self, price, open_price, high,
                                              low, None))
                     /\ calls' = Append(calls,
                                        Event("monitor_position", "", "ok"))
                     /\ pc' = "sleep"
    /\ UNCHANGED <<fetchvars, impl, mode, histvars, sigvars>>
    /\ UNCHANGED <<loop, cycle, cooldown_until>>

MonitorBacktest ==
    /\ loop = "backtest"
    /\ pc = "monitor"
    /\ IF current_position # None
       THEN \E open \in CandleOpens :
               LET price == Val(live_price)
                   high == IF open > price THEN open ELSE price
                   low == IF open > price THEN price ELSE open
                   s == MonitorPosition(Self, price, Some(open), Some(high),
                                        Some(low), Some(cycle))
               IN /\ Store(s)
                  /\ calls' = Append(calls,
                                     Event("monitor_position", "", "ok"))
                  /\ cooldown_until' =
                        IF s.current_position = None
                        THEN Some(cycle + CooldownCandles)
                        ELSE cooldown_until
                  /\ UNCHANGED <<live_price, mock_mode>>
       ELSE Skip /\ UNCHANGED cooldown_until
    /\ pc' = "next"
    /\ UNCHANGED <<fetchvars, impl, mode, histvars, sigvars>>
    /\ UNCHANGED <<loop, cycle>>

\* ---- end of the cycle
\* time.sleep(60), then the next pass of "while True"
Sleep ==
    /\ loop \in LiveLoops
    /\ pc = "sleep"
    /\ cycle < MaxCycles
    /\ cycle' = cycle + 1
    /\ pc' = "fetch_price"
    /\ UNCHANGED <<fetchvars, impl, mode, pmvars, histvars, sigvars>>
    /\ UNCHANGED <<loop, live_price, calls, cooldown_until, mock_mode>>

\* the next row of df_15m, or the end of the for loop
NextCandle ==
    /\ loop = "backtest"
    /\ pc = "next"
    /\ IF cycle < MaxCycles
       THEN cycle' = cycle + 1 /\ pc' = "fetch_price"
       ELSE UNCHANGED cycle /\ pc' = "done"
    /\ UNCHANGED <<fetchvars, impl, mode, pmvars, histvars, sigvars>>
    /\ UNCHANGED <<loop, live_price, calls, cooldown_until, mock_mode>>

NextLoops ==
    \/ FetchLivePrice
    \/ ReadCandle
    \/ DecideAction
    \/ TradeMain
    \/ TradeMain2
    \/ TradeBacktest
    \/ MonitorLive
    \/ MonitorBacktest
    \/ Sleep
    \/ NextCandle

SpecLoops == InitLoops /\ [][NextLoops]_vars

\* ---- the decision of one cycle of skeleton_main.py on its own: the
\* history fetched for the intervals, then generate_signals,
\* process_signals and get_action on it
FetchMultipleTimeframesCall ==
    /\ pc = "idle"
    /\ \E market_data \in MarketData :
          calls' = <<Event("fetch_multiple_timeframes", Intervals,
                           FetchMultipleTimeframes(market_data))>>
    /\ pc' = "signals"
    /\ UNCHANGED <<fetchvars, impl, mode, pmvars, histvars, sigvars>>
    /\ UNCHANGED <<loop, cycle, live_price, cooldown_until, mock_mode>>

DecideOnHistory ==
    /\ pc = "signals"
    /\ LET historical_data == calls[1].result
           signals == GenerateSignals(historical_data)
       IN /\ current_action' = ProcessSignals(signals)
          /\ decided' = Some(current_action')
          /\ sigCall' = SigCall("get_action", None, current_action')
    /\ pc' = "idle"
    /\ UNCHANGED <<fetchvars, impl, mode, pmvars, histvars>>
    /\ UNCHANGED <<loop, cycle, live_price, calls, cooldown_until, mock_mode>>

NextDecision ==
    \/ FetchMultipleTimeframesCall
    \/ DecideOnHistory

SpecDecision == InitSignals /\ [][NextDecision]_vars

\* ============================================================== fetch
\* DataHandler.fetch_historical_data pages backward through the exchange's
\* /klines endpoint: one request per step, and the step that leaves the
\* "while True" loop also filters, sorts and returns.  Times are in ms.
Limit == 2               \* rows the exchange returns per request
MaxPages == 5            \* requests followed within one call

\* the candles the exchange holds, oldest first
Klines ==
    <<[open_time |-> 0, close_time |-> 9],
      [open_time |-> 10, close_time |-> 19],
      [open_time |-> 20, close_time |-> 29],
      [open_time |-> 30, close_time |-> 39],
      [open_time |-> 40, close_time |-> 49],
      [open_time |-> 50, close_time |-> 59]>>
\* datetime.now(timezone.utc) of a call and timedelta(days = days)
Nows == {29, 35, 39, 49, 55}
Lookbacks == {15, 25, 30}
\* endTime is compared with the candle's open time (the exchange's rule) or
\* with its close time
KlineFilters == {"openTime", "closeTime"}

Matches(kline, filter, end) ==
    IF filter = "openTime" THEN kline.open_time <= end
    ELSE kline.close_time <= end

\* response.json(): the latest `limit` candles up to endTime, oldest first
Page(filter, end) ==
    LastRows(SelectSeq(Klines, LAMBDA kline : Matches(kline, filter, end)),
             Limit)

\* pd.concat(all_data)
RECURSIVE Concat(_)
Concat(pages) ==
    IF pages = <<>> THEN <<>> ELSE pages[1] \o Concat(Tail(pages))

\* combined_data[combined_data["close_time"] >= start_time]
FilterFrom(rows, start) ==
    SelectSeq(rows, LAMBDA row : row.close_time >= start)

\* sort_values(by = "close_time"): rows with the same close time are copies
\* of one candle, so their relative order does not show.
RECURSIVE SortValues(_)
SortValues(rows) ==
    IF rows = <<>> THEN <<>>
    ELSE LET first == rows[1]
             rest == Tail(rows)
         IN SortValues(SelectSeq(rest, LAMBDA row :
                                    row.close_time < first.close_time))
            \o <<first>>
            \o SortValues(SelectSeq(rest, LAMBDA row :
                                       row.close_time >= first.close_time))

\* lines 67-86: what is returned once the loop is left
CombinedData(pages, start) ==
    IF pages # <<>> THEN SortValues(FilterFrom(Concat(pages), start))
    ELSE <<>>

FetchFrame ==
    UNCHANGED <<impl, mode, pmvars, histvars, sigvars, loop, cycle,
                live_price, calls, cooldown_until, mock_mode>>

\* a call of fetch_historical_data(interval, days): lines 30-33
FetchHistoricalDataCall ==
    /\ pc \in {"idle", "returned"}
    /\ \E now \in Nows, lookback \in Lookbacks, filter \in KlineFilters :
          /\ kline_filter' = filter
          /\ end_time' = Some(now)
          /\ start_time' = Some(now - lookback)
    /\ all_data' = <<>>
    /\ combined_data' = None
    /\ pc' = "request"
    /\ FetchFrame

Return(pages) ==
    /\ combined_data' = Some(CombinedData(pages, Val(start_time)))
    /\ pc' = "returned"

\* one pass of the "while True" loop: lines 35-65
RequestPage ==
    /\ pc = "request"
    /\ Len(all_data) < MaxPages
    /\ \/ LET data == Page(kline_filter, Val(end_time))
          IN IF data = <<>>
             THEN /\ UNCHANGED <<end_time, all_data>>      \* "if not data"
                  /\ Return(all_data)
             ELSE /\ all_data' = Append(all_data, data)
                  /\ end_time' = Some(data[1].close_time - 1)
                  /\ IF data[1].close_time < Val(start_time)
                     THEN Return(all_data')
                     ELSE UNCHANGED combined_data /\ pc' = "request"
       \/ /\ UNCHANGED <<end_time, all_data>>       \* RequestException
          /\ Return(all_data)
    /\ UNCHANGED <<kline_filter, start_time>>
    /\ FetchFrame

\* the DataHandler is constructed; nothing has been fetched yet
InitFetch ==
    /\ impl = "pm"
    /\ mode = "live"
    /\ PmInit(InitialBalance)
    /\ StrategyInit
    /\ NoLoop
    /\ NoFetch

NextFetch ==
    \/ FetchHistoricalDataCall
    \/ RequestPage

SpecFetch == InitFetch /\ [][NextFetch]_vars

\* ------------------------------------------------------------ properties
IsOpen == current_position # None
IsFlat == current_position = None
Closes == current_position # None /\ current_position' = None
LastClosed == position_log'[Len(position_log')]

RECURSIVE SeqMax(_)
SeqMax(seq) ==
    IF Len(seq) = 1 THEN seq[1]
    ELSE Max2(seq[1], SeqMax(Tail(seq)))

Rising(seq) == \A i \in 2..Len(seq) : seq[i] > seq[i - 1]

\* C1: enter_position on an open position raises and changes nothing: the
\* open position, highest_price, trailing_stop, watch_mode, balance and the
\* ledger are all as before.
C1_EnterWhileOpenRaises ==
    [][(IsOpen /\ lastOp'.name = "enter_position")
          => (lastOp'.raised /\ UNCHANGED pmvars)]_vars

C1_Witness ==
    /\ lastOp.name = "enter_position"
    /\ lastOp.raised
    /\ IsOpen

\* C2: a call that closes the open position appends exactly one record that
\* carries the position's symbol, quantity and entry_price and the exit
\* price, reason and timestamp of the call, keeps the earlier records, and
\* ends FLAT with highest_price and trailing_stop cleared and watch_mode off.
C2_ExitAppendsOneRecord ==
    [][/\ Closes =>
            /\ Len(position_log') = Len(position_log) + 1
            /\ SubSeq(position_log', 1, Len(position_log)) = position_log
            /\ LastClosed.symbol = Val(current_position).symbol
            /\ LastClosed.quantity = Val(current_position).quantity
            /\ LastClosed.entry_price = Val(current_position).entry_price
            /\ highest_price' = None
            /\ trailing_stop' = None
            /\ watch_mode' = FALSE
       /\ (IsOpen /\ lastOp'.name = "exit_position") =>
            \A exit_price \in Prices, timestamp \in Timestamps :
              ExitStep(exit_price, "SELL Signal", timestamp) =>
                /\ Closes
                /\ LastClosed.exit_price = exit_price
                /\ LastClosed.reason = "SELL Signal"
                /\ LastClosed.timestamp = timestamp
       /\ ~Closes => position_log' = position_log]_vars

C2_Witness ==
    /\ lastOp.name = "exit_position"
    /\ IsFlat
    /\ Len(position_log) = 2
    /\ clock = 4

\* C3: exit_position while FLAT returns without raising and leaves the
\* ledger, balance, profit reserve and count, the volatility window and every
\* position field unchanged.
C3_ExitWhileFlatIsNoOp ==
    [][(IsFlat /\ lastOp'.name = "exit_position")
          => (~lastOp'.raised /\ UNCHANGED pmvars)]_vars

C3_Witness ==
    /\ lastOp.name = "exit_position"
    /\ IsFlat
    /\ position_log = <<>>

\* C4: for every exit of an open position the recorded pnl is
\* (exit - entry) * quantity - fee with fee = (entry + exit) * quantity * 0.001
\* and, before any profit skim, the balance grows by exactly that pnl
\* (money is counted in 1/MoneyScale).
C4_PnlAndFee ==
    [][Closes =>
         LET pos == Val(current_position)
             gross == (LastClosed.exit_price - pos.entry_price) * pos.quantity
             turnover == (pos.entry_price + LastClosed.exit_price)
                             * pos.quantity
         IN /\ LastClosed.pnl * 1000
                  = gross * MoneyScale * 1000 - turnover * MoneyScale
            /\ (balance' + (profit_account' - profit_account))
                  = balance + LastClosed.pnl]_vars

\* entry 100, quantity 10, exit 110: fee 2.1, pnl 97.9
C4_Witness ==
    \E i \in 1..Len(position_log) :
        /\ position_log[i].entry_price = 100
        /\ position_log[i].quantity = 10
        /\ position_log[i].exit_price = 110
        /\ position_log[i].pnl * 10 = 979 * MoneyScale

\* C5: after any exit, for either implementation, the available balance is at
\* most 1.10 x initial_balance.
C5_BalanceAtMostTarget ==
    (IsFlat /\ position_log # <<>>)
        => balance * 100 <= InitialBalance * MoneyScale * TargetPct

\* C6: profit-skim rule of position_manager_1.py: when the balance after
\* crediting pnl exceeds 1.10 x initial_balance exactly the excess moves to
\* the profit reserve, the balance becomes 1.10 x initial_balance, the event
\* count grows by one and the record shows the amount and the new count;
\* otherwise reserve and count stay and the record shows zero. Either way
\* balance + reserve grows by exactly the pnl.
C6_ProfitSkimRule ==
    [][(impl = "pm1" /\ Closes) =>
         LET credited == balance + LastClosed.pnl
             excess100 == credited * 100
                             - InitialBalance * MoneyScale * TargetPct
         IN /\ IF excess100 > 0
               THEN /\ (profit_account' - profit_account) * 100 = excess100
                    /\ balance' * 100 = InitialBalance * MoneyScale * TargetPct
                    /\ profit_taken_count' = profit_taken_count + 1
                    /\ LastClosed.profit_taken * 100 = excess100
                    /\ LastClosed.profit_taken_count = profit_taken_count'
               ELSE /\ profit_account' = profit_account
                    /\ profit_taken_count' = profit_taken_count
                    /\ balance' = credited
                    /\ LastClosed.profit_taken = 0
                    /\ LastClosed.profit_taken_count = profit_taken_count
            /\ balance' + profit_account'
                  = balance + profit_account + LastClosed.pnl]_vars

C6_Witness ==
    /\ impl = "pm1"
    /\ Len(position_log) = 2
    /\ position_log[1].profit_taken > 0
    /\ position_log[1].profit_taken_count = 1
    /\ position_log[2].profit_taken = 0
    /\ profit_account = position_log[1].profit_taken

\* C7: watch mode is one-way per position: a call on a position in watch
\* mode that leaves it open leaves it in watch mode; watch_mode turns false
\* only when the position is closed, and is false after a successful enter.
C7_WatchModeOneWay ==
    [][/\ (IsOpen /\ watch_mode /\ current_position' # None) => watch_mode'
       /\ (watch_mode /\ ~watch_mode') => Closes
       /\ (lastOp'.name = "enter_position" /\ ~lastOp'.raised)
             => ~watch_mode']_vars

C7_Witness ==
    /\ IsOpen
    /\ watch_mode
    /\ lastOp.name \in {"monitor_position", "update_risk"}
    /\ Len(monitored) >= 2
    /\ \E i \in 1..(Len(monitored) - 1) :
          monitored[i] * 100 >= Val(current_position).entry_price * WatchPct
    /\ monitored[Len(monitored)] * 100
          < Val(current_position).entry_price * WatchPct

\* C8: while a position stays open and every monitored price is higher than
\* the one before, trailing_stop does not decrease from one monitor call to
\* the next, also when the stop switches to the ATR formula.
C8_StopNeverDecreasesOnRise ==
    [][(/\ IsOpen
        /\ current_position' # None
        /\ lastOp'.name = "monitor_position"
        /\ Rising(monitored'))
          => Val(trailing_stop') >= Val(trailing_stop)]_vars

\* C9: while a position is open highest_price is set, never decreases across
\* monitor/update_risk calls, is at least the entry price and equals the
\* maximum of the entry price and the prices monitored since entry.
C9_HighestIsRunningMax ==
    [][/\ current_position' # None =>
            /\ highest_price' # None
            /\ Val(highest_price') >= Val(current_position').entry_price
            /\ Val(highest_price')
                  = SeqMax(<<Val(current_position').entry_price>>
                               \o monitored')
       /\ (IsOpen /\ current_position' # None) =>
            Val(highest_price') >= Val(highest_price)]_vars

C9_Witness ==
    /\ IsOpen
    /\ Len(monitored) >= 3
    /\ monitored[1] > Val(current_position).entry_price
    /\ monitored[2] > monitored[1]
    /\ monitored[3] < monitored[2]
    /\ highest_price = Some(monitored[2])

\* C10: a successful enter_position from FLAT sets highest_price to the entry
\* price, trailing_stop to entry x (1 - trailing_stop_pct), watch_mode false
\* and watch_mode_entered none, whatever an earlier position left behind in
\* those fields or in the ATR.
C10_EnterInitialisesRisk ==
    [][(IsFlat /\ lastOp'.name = "enter_position") =>
        \A symbol \in Symbols, quantity \in Quantities,
           entry_price \in Prices, reason \in Reasons :
           EnterStep(symbol, quantity, entry_price, reason) =>
              /\ ~lastOp'.raised
              /\ Val(current_position').entry_price = entry_price
              /\ highest_price' = Some(entry_price)
              /\ trailing_stop' # None
              /\ Val(trailing_stop') * 100
                    = entry_price * (100 - TrailingStopPct) * StopScale
              /\ watch_mode' = FALSE
              /\ watch_mode_entered' = None]_vars

C10_Witness ==
    /\ lastOp.name = "enter_position"
    /\ ~lastOp.raised
    /\ IsOpen
    /\ position_log # <<>>
    /\ atr # None
    /\ Val(atr) # 0

\* C11: in backtest mode a successful enter_position reduces the balance by
\* exactly quantity * entry_price, in live mode it leaves the balance as it
\* is; this holds for every PositionManager, in particular for the one of
\* position_manager.py, which the backtest simulation instantiates.
C11_BacktestEntryDeductsFunds ==
    [][(IsFlat /\ lastOp'.name = "enter_position") =>
        \A symbol \in Symbols, quantity \in Quantities,
           entry_price \in Prices, reason \in Reasons :
           EnterStep(symbol, quantity, entry_price, reason) =>
              balance' = IF mode = "backtest"
                         THEN balance - quantity * entry_price * MoneyScale
                         ELSE balance]_vars

C15_RedCandleExit ==
    [][(IsOpen /\ lastOp'.name = "monitor_position") =>
        \A current_price \in Prices, open_price \in OptOpenPrices,
           timestamp \in Timestamps :
          \A hl \in HighLows(current_price) :
           MonitorStep(current_price, open_price, hl[1], hl[2], timestamp) =>
              LET s3 == RiskUpdated(Self, current_price, hl[1], hl[2],
                                    timestamp)
                  redExit == /\ Closes
                             /\ LastClosed.reason = "Watch Mode Red Candle"
              IN /\ (s3.watch_mode /\ open_price # None
                        /\ current_price < Val(open_price))
                       => (redExit /\ LastClosed.exit_price = current_price)
                 /\ (~s3.watch_mode \/ open_price = None) => ~redExit]_vars

\* C16: while the price window holds fewer than atr_period + 1 samples the
\* ATR is undefined, and a tick above the highest price (monitor_position or
\* update_risk) that leaves the position open sets highest_price to the
\* tick's price and trailing_stop to that price * (1 - trailing_stop_pct).
PctStopSet(current_price) ==
    /\ highest_price' = Some(current_price)
    /\ trailing_stop' # None
    /\ Val(trailing_stop') * 100
          = current_price * (100 - TrailingStopPct) * StopScale

\* the tick's price, read from the histories the call extends
MonitoredPrice == price_history'[Len(price_history')].close
RiskPrice == monitored'[Len(monitored')]

C16_ShortWindowUsesPctStop ==
    /\ [][(IsOpen /\ lastOp'.name = "monitor_position"
              /\ Len(price_history') < AtrPeriod + 1) =>
             /\ atr' = None
             /\ (IsOpen' /\ MonitoredPrice > Val(highest_price))
                   => PctStopSet(MonitoredPrice)]_vars
    /\ [][(IsOpen /\ lastOp'.name = "update_risk"
              /\ Len(price_history) < AtrPeriod + 1) =>
             /\ atr = None
             /\ (IsOpen' /\ RiskPrice > Val(highest_price))
                   => PctStopSet(RiskPrice)]_vars

C16_Witness ==
    /\ IsOpen
    /\ lastOp.name = "monitor_position"
    /\ Len(price_history) < AtrPeriod + 1
    /\ atr = None
    /\ monitored # <<>>
    /\ Val(highest_price) = monitored[Len(monitored)]
    /\ Val(highest_price) > Val(current_position).entry_price
    /\ Val(trailing_stop) * 100
          = Val(highest_price) * (100 - TrailingStopPct) * StopScale

\* C22: monitor_position and update_risk called while FLAT do nothing: no
\* sample is appended to the volatility window, the ATR is not recomputed,
\* and the position fields, the balance and the ledger stay as they were.
C22_FlatMonitorIsNoOp ==
    [][(IsFlat /\ lastOp'.name \in {"monitor_position", "update_risk"})
          => (~lastOp'.raised /\ UNCHANGED pmvars)]_vars

\* a monitor_position call after the only position so far was closed by
\* exit_position, with samples of that position still in the window
C22_Witness ==
    /\ IsFlat
    /\ lastOp.name = "monitor_position"
    /\ Len(position_log) = 1
    /\ position_log[1].reason = "SELL Signal"
    /\ price_history # <<>>

\* the price p is at or below the trailing stop that is set before the call
AtOrBelowStop(p) ==
    trailing_stop # None /\ p * StopScale <= Val(trailing_stop)

TrailingStopExit(p) ==
    /\ Closes
    /\ LastClosed.reason = "Trailing Stop"
    /\ LastClosed.exit_price = p

\* C23: a monitor_position or update_risk call that finds the position in
\* watch mode with a trailing stop set and a price at or below that stop
\* closes the position in the same call, with reason "Trailing Stop" and the
\* call's price (not the stop level) as exit price.
C23_TrailingStopExit ==
    /\ [][(IsOpen /\ watch_mode /\ lastOp'.name = "monitor_position"
              /\ AtOrBelowStop(MonitoredPrice))
            => TrailingStopExit(MonitoredPrice)]_vars
    /\ [][(IsOpen /\ watch_mode /\ lastOp'.name = "update_risk") =>
            \A current_price \in Prices, timestamp \in Timestamps :
               (AtOrBelowStop(current_price)
                   /\ UpdateRiskStep(current_price, timestamp))
                 => TrailingStopExit(current_price)]_vars

\* a position closed by the trailing stop below its entry price
C23_Witness ==
    /\ IsFlat
    /\ lastOp.name \in {"monitor_position", "update_risk"}
    /\ position_log # <<>>
    /\ position_log[Len(position_log)].reason = "Trailing Stop"
    /\ position_log[Len(position_log)].exit_price
          < position_log[Len(position_log)].entry_price

\* the price p is below the watch-mode activation threshold of the position
BelowWatch(p) == p * 100 < Val(current_position).entry_price * WatchPct

C25_FixedStopBeforeWatch ==
    [][(impl = "pm" /\ IsOpen /\ ~watch_mode
           /\ lastOp'.name = "monitor_position"
           /\ MonitoredPrice * 100
                 <= Val(current_position).entry_price * (100 - FixedStopPct))
         => Closes]_vars

\* C26: in position_manager.py, watch mode is activated on the first
\* monitored tick whose price is at least 5% above the entry price: a
\* monitor_position call on a position out of watch mode that leaves it open
\* turns watch mode on exactly when current_price >= entry_price * 1.05.
C26_WatchAtFivePercent ==
    [][(impl = "pm" /\ IsOpen /\ ~watch_mode
           /\ lastOp'.name = "monitor_position"
           /\ current_position' # None)
         => (watch_mode' <=>
               MonitoredPrice * 100
                  >= Val(current_position).entry_price * 105)]_vars

\* C27: whenever the volatility window is full (atr_period + 1 samples) the
\* ATR is defined and equals the mean of the atr_period true ranges of
\* consecutive samples (atr holds their sum), and a new-high tick that leaves
\* the position open sets trailing_stop = highest_price - stop_loss_mult x
\* ATR; also when all true ranges are zero (ATR = 0, stop = highest_price).
C27_AtrStopWhenWindowFull ==
    /\ [](Len(price_history) = AtrPeriod + 1 =>
             /\ atr # None
             /\ Val(atr) = SumTr(price_history, Len(price_history)))
    /\ [][(IsOpen /\ lastOp'.name = "monitor_position"
              /\ Len(price_history') = AtrPeriod + 1
              /\ current_position' # None
              /\ MonitoredPrice > Val(highest_price)) =>
             /\ highest_price' = Some(MonitoredPrice)
             /\ trailing_stop' = Some(AtrStop(MonitoredPrice, Val(atr')))]_vars
    /\ [][(IsOpen /\ lastOp'.name = "update_risk"
              /\ Len(price_history) = AtrPeriod + 1
              /\ current_position' # None
              /\ RiskPrice > Val(highest_price)) =>
             /\ highest_price' = Some(RiskPrice)
             /\ trailing_stop' = Some(AtrStop(RiskPrice, Val(atr)))]_vars

\* C28: the volatility window never holds more than atr_period + 1 samples;
\* a monitor_position call on an open position appends exactly one sample
\* (high, low, close = current_price) at the end and evicts the oldest one
\* when the window was full; high and low are both the current price when
\* either of them is missing.
C28_WindowIsBoundedDeque ==
    /\ [](Len(price_history) <= AtrPeriod + 1)
    /\ [][(IsOpen /\ lastOp'.name = "monitor_position") =>
            \A current_price \in Prices, high \in OptHighs, low \in OptLows :
               MonitorStep(current_price, None, high, low, None) =>
                  LET missing == high = None \/ low = None
                      sample ==
                          [high |-> IF missing THEN current_price
                                    ELSE Val(high),
                           low |-> IF missing THEN current_price
                                   ELSE Val(low),
                           close |-> current_price]
                      kept == IF Len(price_history) = AtrPeriod + 1
                              THEN Tail(price_history)
                              ELSE price_history
                  IN price_history' = Append(kept, sample)]_vars

\* more ticks monitored in this position than the window holds, the last
\* one with defaulted high and low
C28_Witness ==
    /\ IsOpen
    /\ lastOp.name = "monitor_position"
    /\ Len(price_history) = AtrPeriod + 1
    /\ Len(monitored) > AtrPeriod + 1
    /\ price_history[Len(price_history)].high
          = price_history[Len(price_history)].close
    /\ price_history[1].high # price_history[1].close

\* ================================================= claims on the signals
HasLabel(signals, label) ==
    \E k \in DOMAIN signals : Upper(signals[k]) = label

\* C13: SELL has priority.  After process_signals on any signal set, the
\* action is SELL when some pair is labelled SELL, BUY only when no pair is
\* labelled SELL and some pair is labelled BUY, HOLD only when there is
\* neither; get_action returns what the most recent process_signals
\* returned, and HOLD before any call.
C13_SellPriority ==
    /\ sigCall.name = "process_signals" =>
          /\ sigCall.result = current_action
          /\ HasLabel(sigCall.arg, "SELL") => current_action = "SELL"
          /\ current_action = "BUY" =>
                ~HasLabel(sigCall.arg, "SELL") /\ HasLabel(sigCall.arg, "BUY")
          /\ current_action = "HOLD" =>
                ~HasLabel(sigCall.arg, "SELL") /\ ~HasLabel(sigCall.arg, "BUY")
          /\ current_action \in {"SELL", "BUY", "HOLD"}
    /\ sigCall.name = "get_action" =>
          sigCall.result = IF decided = None THEN "HOLD" ELSE Val(decided)

C13_Witness ==
    /\ sigCall.name = "process_signals"
    /\ HasLabel(sigCall.arg, "SELL")
    /\ HasLabel(sigCall.arg, "BUY")
    /\ current_action = "SELL"

\* C14: combine_signals returns BUY exactly when both the 15m and the 1h
\* signal are BUY, SELL exactly when at least one of them is SELL, and HOLD
\* otherwise; 15m = BUY with 1h = SELL is SELL.
C14_CombineSignals ==
    sigCall.name = "combine_signals" =>
        LET signal_15m == sigCall.arg[1]
            signal_1h == sigCall.arg[2]
        IN /\ sigCall.result = "BUY"
                 <=> (signal_15m = "BUY" /\ signal_1h = "BUY")
           /\ sigCall.result = "SELL"
                 <=> (signal_15m = "SELL" \/ signal_1h = "SELL")
           /\ sigCall.result = "HOLD"
                 <=> ~(signal_15m = "BUY" /\ signal_1h = "BUY")
                     /\ ~(signal_15m = "SELL" \/ signal_1h = "SELL")

C14_Witness ==
    /\ sigCall.name = "combine_signals"
    /\ sigCall.arg = <<"BUY", "SELL">>
    /\ sigCall.result = "SELL"

\* C18: insufficient history yields no signal.  When the cleaned series of
\* a timeframe has fewer rows than the MACD needs (LongWindow), e.g. the
\* single row of get_latest_market_data, generate_signals labels no
\* indicator of that timeframe BUY or SELL.
C18_ShortHistoryNoSignal ==
    sigCall.name = "generate_signals" =>
        \A k \in DOMAIN sigCall.result :
            Len(ValidateAndCleanData(sigCall.arg[k[2]])) < LongWindow
                => sigCall.result[k] \notin {"BUY", "SELL"}

\* ==================================================== claims on the loops
\* the decision the cycle's trade step acts on
LoopDecision == IF loop = "backtest" THEN sigCall.result ELSE current_action

OrderSucceededBefore(i, side) ==
    \E j \in 1..(i - 1) :
        /\ calls[j].call = "execute_trade"
        /\ calls[j].arg = side
        /\ calls[j].result \in {"SUCCESS", "MOCK_SUCCESS"}

\* C17: a gateway failure never changes position state.  In every script a
\* cycle calls enter_position only after its BUY order came back with
\* success, and calls exit_position for a SELL decision only after its SELL
\* order came back with success; a trade step whose order came back with
\* status ERROR leaves the PositionManager as it was and goes on to the
\* monitor step.
C17_GatewayFailureKeepsState ==
    /\ [](\A i \in 1..Len(calls) :
            /\ calls[i].call = "enter_position"
                  => OrderSucceededBefore(i, "BUY")
            /\ calls[i].call = "exit_position"
                  => OrderSucceededBefore(i, "SELL"))
    /\ [][(pc = "trade"
             /\ \E i \in 1..Len(calls') :
                   /\ calls'[i].call = "execute_trade"
                   /\ calls'[i].result = "ERROR")
            => (UNCHANGED pmvars /\ pc' = "monitor")]_vars

\* C19: no script calls enter_position on an open position, so the call
\* never raises "already active"; a trade step that finds a BUY decision
\* while a position is open calls nothing and leaves the PositionManager as
\* it was.
C19_EnterOnlyWhenFlat ==
    /\ [](\A i \in 1..Len(calls) :
            calls[i].call = "enter_position" => calls[i].result = "ok")
    /\ [][(pc = "trade" /\ IsOpen /\ LoopDecision = "BUY")
            => (UNCHANGED pmvars /\ UNCHANGED calls)]_vars

C19_Witness ==
    /\ loop \in Loops
    /\ pc = "monitor"
    /\ cycle > 1
    /\ IsOpen
    /\ LoopDecision = "BUY"
    /\ calls = <<>>

\* C20: in the live scripts no failure inside a cycle ends the process: a
\* step that raises continues at the sleep, the sleep is followed by the
\* first step of the next cycle, and a cycle is left in no other way.
C20_FailureNeverEndsLiveLoop ==
    [][(loop \in LiveLoops) =>
          (/\ pc' # "terminated"
           /\ (calls' # calls /\ calls' # <<>>
                  /\ calls'[Len(calls')].call = "raise") => pc' = "sleep"
           /\ pc = "sleep" => (pc' = "fetch_price" /\ cycle' = cycle + 1)
           /\ pc' = "fetch_price" => pc = "sleep"
           /\ cycle' # cycle => pc = "sleep")]_vars

C20_Witness ==
    /\ loop \in LiveLoops
    /\ pc = "fetch_price"
    /\ cycle > 1
    /\ calls # <<>>
    /\ calls[Len(calls)].call = "raise"

\* ================================================ claims on the data fetch
\* C21: the frame fetch_historical_data returns is sorted ascending by close
\* time with strictly increasing close times: no candle appears twice, also
\* when a page repeats the first candle of the page requested before it.
C21_StrictlyIncreasingCloseTimes ==
    combined_data # None =>
        \A i \in 2..Len(Val(combined_data)) :
            Val(combined_data)[i].close_time
                > Val(combined_data)[i - 1].close_time

\* C29: in the live scripts a cycle that fetched price, high and low calls
\* monitor_position so that the sample recorded in the volatility window has
\* high = the fetched high (MaxPrice), low = the fetched low (MinPrice) and
\* close = live_price, and the timestamp parameter receives the cycle's
\* timestamp, which watch_mode_entered records when watch mode is activated.
C29_LiveMonitorArguments ==
    [][(loop \in LiveLoops /\ pc = "monitor" /\ IsOpen
           /\ price_history' # price_history) =>
         LET sample == price_history'[Len(price_history')]
         IN /\ sample.high = MaxPrice
            /\ sample.low = MinPrice
            /\ sample.close = Val(live_price)
            /\ (~watch_mode /\ watch_mode')
                  => watch_mode_entered' = Some(TimeString)]_vars

\* C30: the TradeExecutor of the backtest simulation, constructed with
\* mock_mode = True, never submits an order through the exchange client:
\* mock_mode stays true across calls and every execute_trade call returns
\* MOCK_SUCCESS.
C30_MockExecutorNeverSubmits ==
    loop = "backtest" =>
        /\ mock_mode
        /\ \A i \in 1..Len(calls) :
              calls[i].call = "execute_trade"
                 => calls[i].result = "MOCK_SUCCESS"

\* C31: backtest cooldown.  A candle on which the position is closed (by the
\* SELL signal or by a monitor exit) starts a cooldown that blocks entries
\* for exactly the 10 following candles: cooldown_until is the closing
\* candle plus 10 candles, and the trade step enters nothing on a candle
\* that is not after cooldown_until.
C31_CooldownTenCandles ==
    [][(loop = "backtest") =>
          /\ (IsOpen /\ current_position' = None)
                => cooldown_until' = Some(cycle + 10)
          /\ (pc = "trade" /\ InCooldown) => UNCHANGED pmvars]_vars

\* C32: aggregate_signals returns as buy votes exactly the (indicator,
\* timeframe) pairs whose label is BUY and as sell votes exactly those whose
\* label is SELL; a pair labelled Oversold, Overbought, Neutral, High Volume
\* or Low Volume is in neither list, and no pair is in both.
C32_AggregateSignals ==
    sigCall.name = "aggregate_signals" =>
        LET signals == sigCall.arg
            buy_signals == sigCall.result.buy_signals
            sell_signals == sigCall.result.sell_signals
        IN /\ buy_signals = {k \in DOMAIN signals : signals[k] = "BUY"}
           /\ sell_signals = {k \in DOMAIN signals : signals[k] = "SELL"}
           /\ \A k \in DOMAIN signals :
                 signals[k] \in {"Oversold", "Overbought", "Neutral",
                                 "High Volume", "Low Volume"}
                    => k \notin buy_signals \cup sell_signals
           /\ buy_signals \cap sell_signals = {}

C32_Witness ==
    /\ sigCall.name = "aggregate_signals"
    /\ sigCall.result.buy_signals = {<<"MACD", "15m">>}
    /\ sigCall.result.sell_signals = {<<"Volume", "15m">>}
    /\ <<"RSI", "1h">> \in DOMAIN sigCall.arg
    /\ sigCall.arg[<<"RSI", "1h">>] = "Oversold"

\* C33: a monitor_position or update_risk call that does not close the
\* position leaves balance, profit_account, profit_taken_count, position_log
\* and the open position (symbol, quantity, entry_price, entry_time, reason)
\* unchanged; a step that changes one of the account fields is an
\* enter_position call or a step in which exit_position closes the position.
C33_RiskCallsKeepAccount ==
    [][/\ (lastOp'.name \in {"monitor_position", "update_risk"} /\ ~Closes)
            => UNCHANGED <<balance, profit_account, profit_taken_count,
                           position_log, current_position>>
       /\ (<<balance, profit_account, profit_taken_count, position_log>>'
               # <<balance, profit_account, profit_taken_count, position_log>>)
            => (lastOp'.name = "enter_position" \/ Closes)]_vars

C33_Witness ==
    /\ lastOp.name = "monitor_position"
    /\ IsOpen
    /\ watch_mode
    /\ Val(highest_price) > Val(current_position).entry_price
    /\ Len(price_history) > 1
    /\ position_log # <<>>

\* C34: the backward-paging loop of fetch_historical_data terminates.  Every
\* request that is followed by another request asks for a strictly earlier
\* endTime, also when the exchange's history begins later than the requested
\* start and the exchange keeps returning its earliest candle.
C34_EndTimeStrictlyDecreases ==
    [][(pc = "request" /\ pc' = "request")
          => Val(end_time') < Val(end_time)]_vars

\* the sum of the realized pnl over the closed positions of a ledger
RECURSIVE SumPnl(_)
SumPnl(log) == IF log = <<>> THEN 0 ELSE log[1].pnl + SumPnl(Tail(log))

\* C35: conservation of funds.  Whenever no position is open, balance plus
\* profit_account equals the initial balance plus the sum of the realized
\* pnl over position_log, in live and in backtest mode.
C35_FundsConserved ==
    IsFlat =>
        balance + profit_account
            = InitialBalance * MoneyScale + SumPnl(position_log)

\* C36: one monitor_position call appends at most one closed position.  When
\* the trailing stop closes the position inside update_risk, the call ends
\* with exactly one new record, whose reason is "Trailing Stop": the
\* red-candle check of the same call adds nothing, whatever the open price,
\* and the balance moves by that one record's pnl.
C36_OneCloseForOneMonitorCall ==
    [][(lastOp'.name = "monitor_position") =>
         /\ Len(position_log') <= Len(position_log) + 1
         /\ (IsOpen /\ watch_mode /\ AtOrBelowStop(MonitoredPrice)) =>
               /\ IsFlat'
               /\ ~watch_mode'
               /\ position_log'
                     = Append(position_log, LastClosed)
               /\ LastClosed.reason = "Trailing Stop"
               /\ balance' + profit_account'
                     = balance + profit_account + LastClosed.pnl]_vars

\* a position closed by the trailing stop at a price for which the inputs
\* hold a higher open price (a red candle), with one record in the ledger
C36_Witness ==
    /\ IsFlat
    /\ lastOp.name = "monitor_position"
    /\ Len(position_log) = 1
    /\ position_log[1].reason = "Trailing Stop"
    /\ \E open_price \in OpenPrices :
          IsRedCandle(position_log[1].exit_price, open_price)

\* C37: the shape of the state.  In every reachable state no position is
\* open exactly when highest_price and trailing_stop are both unset; while
\* no position is open watch_mode is false and watch_mode_entered is unset;
\* an open position has highest_price and trailing_stop set.
C37_StateShape ==
    /\ IsFlat <=> (highest_price = None /\ trailing_stop = None)
    /\ IsFlat => (~watch_mode /\ watch_mode_entered = None)
    /\ IsOpen => (highest_price # None /\ trailing_stop # None)

\* flat again after a position that was in watch mode, with its timestamp
\* recorded, was closed by the red-candle exit
C37_Witness ==
    /\ IsFlat
    /\ position_log # <<>>
    /\ position_log[Len(position_log)].reason = "Watch Mode Red Candle"
    /\ position_log[Len(position_log)].timestamp # None
    /\ highest_price = None
    /\ trailing_stop = None
    /\ ~watch_mode

\* C38: in the backtest simulation, with strictly positive candle prices,
\* the balance of the PositionManager is strictly positive in every state,
\* whatever the candles: an entry of 0.99 x balance / price cannot lose the
\* whole balance, fees of both sides included.
C38_BacktestBalancePositive ==
    loop = "backtest" => balance > 0

\* a backtest position closed with less than a tenth of the initial balance
\* left (entered at 90, closed at 1)
C38_Witness ==
    /\ loop = "backtest"
    /\ IsFlat
    /\ position_log # <<>>
    /\ position_log[Len(position_log)].exit_price = 1
    /\ balance * 10 < InitialBalance * MoneyScale

\* the timeframes of the fetched history that generate_signals processes
\* without an exception, and whether the latest MACD of a timeframe is
\* strictly above its signal line
Processed(historical_data) ==
    {iv \in DOMAIN historical_data :
        SelectSeq(historical_data[iv], IsClean) # <<>>}
LatestMacdAbove(historical_data, iv) ==
    MacdAboveSignal(CloseColumn(SelectSeq(historical_data[iv], IsClean)))

\* C39: the decision of a live cycle.  generate_signals labels the MACD of
\* every processed timeframe BUY when the latest MACD is strictly above the
\* latest signal line and SELL otherwise, so the action the cycle gets from
\* get_action is BUY iff some timeframe was processed and every processed
\* timeframe is BUY, SELL iff at least one processed timeframe is SELL, and
\* HOLD iff no timeframe was processed.
C39_LiveDecision ==
    (pc = "idle" /\ calls # <<>>) =>
        LET historical_data == calls[1].result
            processed == Processed(historical_data)
            signals == GenerateSignals(historical_data)
        IN /\ \A iv \in processed :
                 signals[<<"MACD", iv>>]
                    = IF LatestMacdAbove(historical_data, iv) THEN "BUY"
                      ELSE "SELL"
           /\ sigCall.result = "BUY" <=>
                 /\ processed # {}
                 /\ \A iv \in processed :
                       LatestMacdAbove(historical_data, iv)
           /\ sigCall.result = "SELL" <=>
                 \E iv \in processed : ~LatestMacdAbove(historical_data, iv)
           /\ sigCall.result = "HOLD" <=> processed = {}

\* a BUY decided on two processed timeframes
C39_Witness ==
    /\ pc = "idle"
    /\ calls # <<>>
    /\ Processed(calls[1].result) = Intervals
    /\ sigCall.name = "get_action"
    /\ sigCall.result = "BUY"

\* C40: enter_position and exit_position (and update_risk) leave the
\* volatility window and the cached ATR as they are; the window and the ATR
\* change only in monitor_position calls on an open position.  The first
\* monitor_position call of a position therefore finds the samples of the
\* position before it: they stay in the window, the ATR is computed over
\* them and the new sample, and that ATR sets the stop of a new high.
C40_WindowOutlivesPosition ==
    [][/\ (lastOp'.name \in {"enter_position", "exit_position",
                              "update_risk"})
            => UNCHANGED <<price_history, atr>>
       /\ (price_history' # price_history \/ atr' # atr)
            => (lastOp'.name = "monitor_position" /\ IsOpen)
       /\ (IsOpen /\ monitored = <<>> /\ price_history # <<>>
              /\ lastOp'.name = "monitor_position") =>
            /\ SubSeq(price_history', 1, Len(price_history') - 1)
                  = LastRows(price_history, AtrPeriod)
            /\ atr' = IF Len(price_history') < AtrPeriod + 1 THEN None
                      ELSE Some(SumTr(price_history', Len(price_history')))
            /\ (IsOpen' /\ MonitoredPrice > Val(highest_price)
                  /\ atr' # None /\ Val(atr') # 0)
                 => trailing_stop'
                       = Some(AtrStop(MonitoredPrice, Val(atr')))]_vars

\* the second position after its first monitor_position call: the window
\* still begins with the sample of the first position, and the stop of the
\* new high comes from the ATR over that sample and the new one
C40_Witness ==
    /\ IsOpen
    /\ lastOp.name = "monitor_position"
    /\ Len(monitored) = 1
    /\ Len(position_log) = 1
    /\ Len(price_history) = AtrPeriod + 1
    /\ price_history[1].close = position_log[1].exit_price
    /\ atr # None
    /\ Val(atr) # 0
    /\ Val(highest_price) = monitored[1]
    /\ trailing_stop = Some(AtrStop(Val(highest_price), Val(atr)))

====
